---------------------------- MODULE Spec2Model ----------------------------
(***************************************************************************)
(* State-machine model of zebra-discord-bot: the Event Store (models.py),  *)
(* the Ingestion Listener and its storage path (discord_bot.py), the Voice *)
(* Session Recorder and Notes Generator (discord_bot.py, VoiceRecorder)    *)
(* and the Backfill Job (management/commands/backfill_messages.py).        *)
(*                                                                         *)
(* Text is a sequence of tokens; " " is the whitespace token, so strip()   *)
(* and Python truthiness are computed rather than assumed.  Platform, API  *)
(* and database calls are inputs: each may return or raise.                *)
(***************************************************************************)
EXTENDS Integers, Sequences, FiniteSets, TLC

(***************************************************************************)
(* Bounds of the model.                                                    *)
(***************************************************************************)
MaxMsg == 3
MaxEvMsg == 2
MaxCount == 2
MaxSessions == 2
MaxRows == 1
MaxCalls == 3
MaxSpeakers == 1

(***************************************************************************)
(* Values.                                                                 *)
(***************************************************************************)
NoRow == [absent |-> TRUE]
NullId == 0
None == <<"None">>
MsgIds == 1..MaxMsg
EvMsgIds == 1..MaxEvMsg
ChanIds == {1, 2}
UserIds == {1, 2, 3}
BotUser == 2
Contents == {<<>>, <<"a">>, <<"b">>}
Counts == 0..MaxCount

\* str.strip(): drop leading and trailing whitespace tokens
RECURSIVE LStrip(_)
LStrip(s) == IF s # <<>> /\ Head(s) = " " THEN LStrip(Tail(s)) ELSE s

RECURSIVE RStrip(_)
RStrip(s) ==
    IF s # <<>> /\ s[Len(s)] = " " THEN RStrip(SubSeq(s, 1, Len(s) - 1)) ELSE s

Strip(s) == RStrip(LStrip(s))

\* Python truthiness of an optional string: None and "" are falsy
Truthy(s) == s # None /\ s # <<>>

\* a or b
PyOr(a, b) == IF Truthy(a) THEN a ELSE b

(***************************************************************************)
(* The platform objects handed to the handlers.                            *)
(***************************************************************************)
\* a message lives in one channel and has one author for its whole life
MsgChan(i) == 1 + ((i + 1) % 2)
MsgAuthor(i) == IF i % 4 = 2 THEN BotUser ELSE IF i % 4 = 3 THEN 3 ELSE 1
IsBotNever(u) == FALSE

IsBot(u) == u = BotUser

\* reaction.emoji: a custom emoji object (name and id) or a plain str
Emojis == { [kind |-> "custom", name |-> "blob", id |-> 7],
            [kind |-> "unicode", name |-> "thumbsup", id |-> NullId] }
Payloads == [emoji : Emojis, count : Counts]

VARIABLES
    \* Event Store
    messages,       \* DiscordMessage rows: message_id -> row or NoRow
    reactions,      \* DiscordReaction rows, in insertion order
    channels,       \* channel_ids with a DiscordChannel row
    users,          \* user_ids with a DiscordUser row
    sessions,       \* VoiceSession rows: session id -> row or NoRow
    transcriptions, \* VoiceTranscription rows, in insertion order
    \* settings
    servers,        \* server_ids with a DiscordServer row
    apiKey,         \* settings.OPENAI_API_KEY is set
    enabled,        \* settings.VOICE_TRANSCRIPTION_ENABLED
    \* Ingestion Listener
    lastEv,         \* the event the listener handled last
    handlers,       \* handlers running side by side: where each is suspended
    \* Notes Generator
    notesProc,      \* per caller of generate_notes: where it is suspended
    notesRet,       \* the results generate_notes returned, in return order
    \* VoiceRecorder
    active_sessions,     \* channel_id -> session id, 0 when absent
    voice_clients,       \* channel_id -> voice client, 0 when absent
    sinks,               \* channel_id -> sink, 0 when absent
    transcription_tasks, \* channel_id -> task, 0 when absent
    connections,    \* the voice clients that are connected
    tasks,          \* the _transcribe_audio_loop tasks
    startProc,      \* per start_recording request: where it is suspended
    stopProc,       \* per stop_recording request: where it is suspended
    nStarts,        \* start requests that got past the guard
    returned,       \* the result start_recording or stop_recording returned last
    \* Backfill Job
    bf,             \* the backfill run: position and locals
    bfLog,          \* what the run did to the store
    \* chat commands and dashboard
    display,        \* DiscordUser.display_name: user_id -> text
    reply,          \* what summary_command sent last
    response,       \* what api_stats answered last
    asked           \* the channel and arguments of a summary command under study

storeVars == <<messages, reactions, channels, users>>
sessVars == <<sessions, transcriptions>>
\* what no handler writes after start-up: the settings, and the DiscordServer
\* rows, which only store_guild (on_ready, sync_guild_data) creates
cfgVars == <<servers, apiKey, enabled>>
notesCallVars == <<notesProc, notesRet>>
recVars == <<active_sessions, voice_clients, sinks, transcription_tasks,
             connections, tasks, startProc, stopProc, nStarts, returned>>
bfVars == <<bf, bfLog>>
viewVars == <<display, reply, response, asked>>
vars == <<storeVars, sessVars, cfgVars, lastEv, handlers, notesCallVars, recVars, bfVars,
          viewVars>>

\* what the listener's handlers never touch
offListener == <<sessVars, cfgVars, handlers, notesCallVars, recVars, bfVars, viewVars>>
\* what generate_notes never touches
offNotes == <<storeVars, transcriptions, cfgVars, lastEv, handlers, recVars, bfVars,
              viewVars>>

NoEv == [kind |-> "none", id |-> 0, content |-> <<>>, bot |-> FALSE,
         payload |-> [emoji |-> CHOOSE e \in Emojis : TRUE, count |-> 0],
         fault |-> "none", raised |-> FALSE, nth |-> 1]

\* two handlers the event loop runs side by side; one that has not been
\* dispatched yet (lost: an insert of its get_or_create was rejected)
Handlers == {1, 2}
IdleHandler == [pc |-> "idle", kind |-> "none", id |-> 0,
                payload |-> NoEv.payload, obj |-> 0, lost |-> FALSE, result |-> "none"]

\* the record of a handled event; raised says that an exception left the
\* handler; nth is 2 when the same event was also the
\* one handled just before
Stamp(ev) == [ev EXCEPT !.nth = IF [lastEv EXCEPT !.nth = 1] = ev THEN 2 ELSE 1]

(***************************************************************************)
(* Storage path.                                                           *)
(***************************************************************************)
\* reaction.emoji.name if reaction.emoji.name else str(reaction.emoji):
\* a str has no attribute name, so the expression raises for a str emoji
EmojiNameRaises(e) == e.kind = "unicode"
EmojiName(e) == e.name
\* reaction.emoji.id if hasattr(reaction.emoji, 'id') else None
EmojiId(e) == IF e.kind = "custom" THEN e.id ELSE NullId

\* rows matching (message, emoji_name, emoji_id); emoji_id=None is IS NULL
Matching(rs, mid, name, eid) ==
    {k \in 1..Len(rs) : rs[k].msg = mid /\ rs[k].name = name /\ rs[k].eid = eid}

\* store_reaction: the reaction table afterwards
StoreReaction(rs, msgs, mid, p, dbOk) ==
    IF ~dbOk THEN rs
    ELSE IF msgs[mid] = NoRow THEN rs
    ELSE IF EmojiNameRaises(p.emoji) THEN rs
    ELSE LET hit == Matching(rs, mid, EmojiName(p.emoji), EmojiId(p.emoji)) IN
         IF hit = {} THEN Append(rs, [msg |-> mid, name |-> EmojiName(p.emoji),
                                      eid |-> EmojiId(p.emoji), count |-> p.count])
         ELSE IF Cardinality(hit) > 1 THEN rs
         ELSE [rs EXCEPT ![CHOOSE k \in hit : TRUE].count = p.count]

\* update_reaction_count: the reaction table afterwards
UpdateReactionCount(rs, msgs, mid, p, dbOk) ==
    IF ~dbOk THEN rs
    ELSE IF msgs[mid] = NoRow THEN rs
    ELSE IF EmojiNameRaises(p.emoji) THEN rs
    ELSE LET hit == Matching(rs, mid, EmojiName(p.emoji), EmojiId(p.emoji)) IN
         IF Cardinality(hit) # 1 THEN rs
         ELSE [rs EXCEPT ![CHOOSE k \in hit : TRUE].count = p.count]

\* store_channel creates a row only for text, voice and category channels;
\* every channel of the model is a text or voice channel
ChanStorable(c) == c \in ChanIds

\* channel.guild of every channel: the bot's one guild
ChanGuild(c) == 1

\* get_or_create_channel returns a row: the row exists, or store_channel
\* creates it, which needs the guild's DiscordServer row
\* (DiscordServer.objects.get raises without it)
ChannelFound(c) == c \in channels \/ (ChanStorable(c) /\ ChanGuild(c) \in servers)

\* the platform message object of an event
PMsg(i, c, ed, ps) ==
    [id |-> i, chan |-> MsgChan(i), author |-> MsgAuthor(i), content |-> c,
     edited_at |-> ed, reactions |-> ps]

RECURSIVE StoreReactions(_, _, _, _)
StoreReactions(rs, msgs, mid, ps) ==
    IF ps = {} THEN rs
    ELSE LET p == CHOOSE q \in ps : \A r \in ps : q.emoji.id >= r.emoji.id IN
         StoreReactions(StoreReaction(rs, msgs, mid, p, TRUE), msgs, mid, ps \ {p})

\* store_message: fault names the database call that raises, if any
ChannelsAfter(m, fault) ==
    IF fault = "channel" \/ ~ChannelFound(m.chan) THEN channels
    ELSE channels \cup {m.chan}

UsersAfter(m, fault) ==
    IF fault \in {"channel", "user"} \/ m.chan \notin ChannelsAfter(m, fault)
    THEN users ELSE users \cup {m.author}

MessageReached(m, fault) ==
    fault \notin {"channel", "user", "message"} /\ m.chan \in ChannelsAfter(m, fault)

MessageCreated(m, fault) == MessageReached(m, fault) /\ messages[m.id] = NoRow

MessagesAfter(m, fault) ==
    IF MessageCreated(m, fault)
    THEN [messages EXCEPT ![m.id] =
             [content |-> m.content, edited |-> m.edited_at,
              chan |-> m.chan, author |-> m.author]]
    ELSE messages

store_message(m, fault) ==
    /\ channels' = ChannelsAfter(m, fault)
    /\ users' = UsersAfter(m, fault)
    /\ messages' = MessagesAfter(m, fault)
    /\ reactions' = IF MessageReached(m, fault)
                    THEN StoreReactions(reactions, MessagesAfter(m, fault), m.id, m.reactions)
                    ELSE reactions

Faults == {"none", "channel", "user", "message"}

(***************************************************************************)
(* Ingestion Listener: one action per event handler.                       *)
(***************************************************************************)
on_message(i, c, fault) ==
    /\ UNCHANGED offListener
    /\ lastEv' = Stamp([NoEv EXCEPT !.kind = "create", !.id = i, !.content = c,
                              !.bot = IsBot(MsgAuthor(i)), !.fault = fault])
    /\ IF IsBot(MsgAuthor(i)) THEN UNCHANGED storeVars
       ELSE store_message(PMsg(i, c, FALSE, {}), fault)

\* on_message_edit catches ObjectDoesNotExist only: any other error of the
\* get or the save leaves the handler
on_message_edit(i, c, fault) ==
    /\ UNCHANGED offListener
    /\ lastEv' = Stamp([NoEv EXCEPT !.kind = "edit", !.id = i, !.content = c,
                              !.bot = IsBot(MsgAuthor(i)), !.fault = fault,
                              !.raised = ~IsBot(MsgAuthor(i)) /\ fault # "none"])
    /\ messages' = IF IsBot(MsgAuthor(i)) \/ fault # "none" \/ messages[i] = NoRow
                   THEN messages
                   ELSE [messages EXCEPT ![i].content = c, ![i].edited = TRUE]
    /\ UNCHANGED <<reactions, channels, users>>

\* DiscordReaction.message is a foreign key with on_delete=CASCADE
CascadeNone(rs, i) == rs

Cascade(rs, i) == SelectSeq(rs, LAMBDA r : r.msg # i)

on_message_delete(i, fault) ==
    /\ UNCHANGED offListener
    /\ lastEv' = Stamp([NoEv EXCEPT !.kind = "delete", !.id = i,
                              !.bot = IsBot(MsgAuthor(i)), !.fault = fault])
    /\ IF IsBot(MsgAuthor(i)) \/ fault # "none"
       THEN UNCHANGED <<messages, reactions>>
       ELSE /\ messages' = [messages EXCEPT ![i] = NoRow]
            /\ reactions' = Cascade(reactions, i)
    /\ UNCHANGED <<channels, users>>

on_reaction_add(i, p, byBot, fault) ==
    /\ UNCHANGED offListener
    /\ lastEv' = Stamp([NoEv EXCEPT !.kind = "react_add", !.id = i, !.payload = p,
                              !.bot = byBot, !.fault = fault])
    /\ reactions' = IF byBot THEN reactions
                    ELSE StoreReaction(reactions, messages, i, p, fault = "none")
    /\ UNCHANGED <<messages, channels, users>>

on_reaction_remove(i, p, byBot, fault) ==
    /\ UNCHANGED offListener
    /\ lastEv' = Stamp([NoEv EXCEPT !.kind = "react_remove", !.id = i, !.payload = p,
                              !.bot = byBot, !.fault = fault])
    /\ reactions' = IF byBot THEN reactions
                    ELSE UpdateReactionCount(reactions, messages, i, p, fault = "none")
    /\ UNCHANGED <<messages, channels, users>>

(***************************************************************************)
(* The handlers one await at a time.  Each database call runs in a worker  *)
(* thread while the handler is suspended, so handlers of other events run  *)
(* between two calls of one handler.  A step lands the pending call and    *)
(* runs the handler up to its next await.                                  *)
(***************************************************************************)
offHandlers == <<sessVars, cfgVars, lastEv, notesCallVars, recVars, bfVars, viewVars>>

\* (variant: the table has no unique constraint)
UniqueTogetherNone(rs, mid, name, eid) == FALSE

\* unique_together = ['message', 'emoji_name', 'emoji_id']: the insert of a
\* second row with the key is rejected; NULL emoji_ids are distinct to the
\* database, so a key without emoji_id is never rejected
UniqueTogether(rs, mid, name, eid) == eid # NullId /\ Matching(rs, mid, name, eid) # {}

\* (variant: a rejected insert leaves get_or_create as IntegrityError)
OnConflictRaises == "raises"

\* get_or_create whose insert the unique column rejects: it fetches the row
\* that got there first and returns it with created = False
OnConflict == "exists"

Finish(h, res) == handlers' = [handlers EXCEPT ![h].pc = "done", ![h].result = res]
Await(h, pc) == handlers' = [handlers EXCEPT ![h].pc = pc]

\* the event loop starts the handler of an event; on_message and the
\* reaction handlers return at once for a bot's activity
Dispatch(h, kind, i, p) ==
    /\ handlers[h].pc = "idle"
    /\ LET me == [IdleHandler EXCEPT !.kind = kind, !.id = i, !.payload = p] IN
       handlers' = [handlers EXCEPT ![h] =
          IF kind = "create" /\ IsBot(MsgAuthor(i))
          THEN [me EXCEPT !.pc = "done", !.result = "ignored"]
          ELSE [me EXCEPT !.pc = IF kind = "create" THEN "chan_get" ELSE "msg_get"]]
    /\ UNCHANGED <<storeVars, offHandlers>>

\* the key of the handler's reaction event
KeyRows(h) ==
    Matching(reactions, handlers[h].id, EmojiName(handlers[h].payload.emoji),
             EmojiId(handlers[h].payload.emoji))

\* DiscordMessage.objects.get of both reaction handlers, then the keyword
\* arguments of the next call
ReactionMessageGot(h, next) ==
    /\ reactions' = reactions
    /\ IF messages[handlers[h].id] = NoRow THEN Finish(h, "no_message")
       ELSE IF EmojiNameRaises(handlers[h].payload.emoji) THEN Finish(h, "raised")
       ELSE Await(h, next)

\* reaction_obj.count = reaction.count; reaction_obj.save()
ReactionSaved(h) ==
    /\ reactions' = [reactions EXCEPT ![handlers[h].obj].count = handlers[h].payload.count]
    /\ Finish(h, "saved")

\* store_reaction
StoreReactionAwait(h) ==
    /\ handlers[h].kind = "react_add" /\ handlers[h].pc \notin {"idle", "done"}
    /\ UNCHANGED <<messages, channels, users, offHandlers>>
    /\ CASE handlers[h].pc = "msg_get" -> ReactionMessageGot(h, "goc_get")
         [] handlers[h].pc = "goc_get" ->
              /\ reactions' = reactions
              /\ IF KeyRows(h) = {} THEN Await(h, "create")
                 ELSE IF Cardinality(KeyRows(h)) > 1 THEN Finish(h, "raised")
                 ELSE handlers' = [handlers EXCEPT ![h].pc = "save",
                                      ![h].obj = CHOOSE k \in KeyRows(h) : TRUE]
         [] handlers[h].pc = "create" ->
              IF UniqueTogether(reactions, handlers[h].id,
                                EmojiName(handlers[h].payload.emoji),
                                EmojiId(handlers[h].payload.emoji))
              THEN /\ reactions' = reactions
                   /\ IF OnConflict = "raises" THEN Finish(h, "raised")
                      ELSE handlers' = [handlers EXCEPT ![h].pc = "save", ![h].lost = TRUE,
                                           ![h].obj = CHOOSE k \in KeyRows(h) : TRUE]
              ELSE /\ reactions' = Append(reactions,
                          [msg |-> handlers[h].id,
                           name |-> EmojiName(handlers[h].payload.emoji),
                           eid |-> EmojiId(handlers[h].payload.emoji),
                           count |-> handlers[h].payload.count])
                   /\ Finish(h, "created")
         [] handlers[h].pc = "save" -> ReactionSaved(h)

\* update_reaction_count
UpdateReactionCountAwait(h) ==
    /\ handlers[h].kind = "react_remove" /\ handlers[h].pc \notin {"idle", "done"}
    /\ UNCHANGED <<messages, channels, users, offHandlers>>
    /\ CASE handlers[h].pc = "msg_get" -> ReactionMessageGot(h, "get")
         [] handlers[h].pc = "get" ->
              /\ reactions' = reactions
              /\ IF KeyRows(h) = {} THEN Finish(h, "no_row")
                 ELSE IF Cardinality(KeyRows(h)) > 1 THEN Finish(h, "raised")
                 ELSE handlers' = [handlers EXCEPT ![h].pc = "save",
                                      ![h].obj = CHOOSE k \in KeyRows(h) : TRUE]
         [] handlers[h].pc = "save" -> ReactionSaved(h)

\* get_or_create_channel: get, else store_channel (the guild's server row,
\* then get_or_create as its lookup and its insert) and get again
GetOrCreateChannelAwait(h) ==
    /\ handlers[h].pc \in {"chan_get", "server_get", "chan_goc_get", "chan_create",
                           "chan_reget"}
    /\ UNCHANGED <<messages, reactions, users, offHandlers>>
    /\ LET c == MsgChan(handlers[h].id) IN
       CASE handlers[h].pc = "chan_get" ->
              /\ channels' = channels
              /\ Await(h, IF c \in channels THEN "user_get"
                          ELSE IF ChanStorable(c) THEN "server_get" ELSE "chan_reget")
         [] handlers[h].pc = "server_get" ->
              /\ channels' = channels
              /\ IF ChanGuild(c) \in servers THEN Await(h, "chan_goc_get")
                 ELSE Finish(h, "raised")
         [] handlers[h].pc = "chan_goc_get" ->
              /\ channels' = channels
              /\ Await(h, IF c \in channels THEN "chan_reget" ELSE "chan_create")
         [] handlers[h].pc = "chan_create" ->
              IF c \in channels
              THEN /\ channels' = channels
                   /\ IF OnConflict = "raises" THEN Finish(h, "raised")
                      ELSE handlers' = [handlers EXCEPT ![h].pc = "chan_reget",
                                                        ![h].lost = TRUE]
              ELSE /\ channels' = channels \cup {c}
                   /\ Await(h, "chan_reget")
         [] handlers[h].pc = "chan_reget" ->
              /\ channels' = channels
              /\ IF c \in channels THEN Await(h, "user_get") ELSE Finish(h, "raised")

\* get_or_create_user: get, else store_user (get_or_create as its lookup and
\* its insert) and get again
GetOrCreateUserAwait(h) ==
    /\ handlers[h].pc \in {"user_get", "user_goc_get", "user_create", "user_reget"}
    /\ UNCHANGED <<messages, reactions, channels, offHandlers>>
    /\ LET u == MsgAuthor(handlers[h].id) IN
       CASE handlers[h].pc = "user_get" ->
              /\ users' = users
              /\ Await(h, IF u \in users THEN "msg_goc_get" ELSE "user_goc_get")
         [] handlers[h].pc = "user_goc_get" ->
              /\ users' = users
              /\ Await(h, IF u \in users THEN "user_reget" ELSE "user_create")
         [] handlers[h].pc = "user_create" ->
              IF u \in users
              THEN /\ users' = users
                   /\ IF OnConflict = "raises" THEN Finish(h, "raised")
                      ELSE handlers' = [handlers EXCEPT ![h].pc = "user_reget",
                                                        ![h].lost = TRUE]
              ELSE /\ users' = users \cup {u}
                   /\ Await(h, "user_reget")
         [] handlers[h].pc = "user_reget" ->
              /\ users' = users
              /\ IF u \in users THEN Await(h, "msg_goc_get") ELSE Finish(h, "raised")

\* store_message after its two parents: DiscordMessage.objects.get_or_create
\* as its lookup and its insert; a new message has no reactions to store
StoreMessageAwait(h) ==
    /\ handlers[h].pc \in {"msg_goc_get", "msg_create"}
    /\ UNCHANGED <<reactions, channels, users, offHandlers>>
    /\ LET i == handlers[h].id IN
       CASE handlers[h].pc = "msg_goc_get" ->
              /\ messages' = messages
              /\ IF messages[i] # NoRow THEN Finish(h, "exists") ELSE Await(h, "msg_create")
         [] handlers[h].pc = "msg_create" ->
              IF messages[i] # NoRow
              THEN /\ messages' = messages
                   /\ IF OnConflict = "raises" THEN Finish(h, "raised")
                      ELSE handlers' = [handlers EXCEPT ![h].pc = "done", ![h].lost = TRUE,
                                                        ![h].result = "exists"]
              ELSE IF MsgChan(i) \in channels /\ MsgAuthor(i) \in users
              THEN /\ messages' = [messages EXCEPT ![i] =
                          [content |-> <<"a">>, edited |-> FALSE,
                           chan |-> MsgChan(i), author |-> MsgAuthor(i)]]
                   /\ Finish(h, "created")
              ELSE /\ messages' = messages
                   /\ Finish(h, "raised")

(***************************************************************************)
(* Voice Session and Voice Transcription rows; the Notes Generator.        *)
(***************************************************************************)
SessionIds == 1..MaxSessions
VoiceChans == {1}
StartReqs == {1, 2}
StopReqs == {1}
NotesCallers == {1, 2}

\* the strings the code returns or stores
NotFoundText == <<"Session not found or not completed">>
AlreadyText == <<"Notes already generated">>
NoTransText == <<"No transcriptions found for this session">>
ExcText == <<"Error generating notes: exc">>
NoKeyText == <<"OpenAI API key not configured">>
ApiErrText == <<"Error generating notes: api">>
ErrorTexts == {NoKeyText, ApiErrText}

\* what response.choices[0].message.content can be
LlmOutputs == {<<"n">>, <<"m", " ">>, <<" ">>}

\* column defaults of a new VoiceSession row
SessionDefaults == [notes |-> None, notes_generated |-> FALSE, ended |-> FALSE]

\* VoiceSession.objects.create(session_id=..., channel=..., status='active')
NewSession(ch) ==
    [status |-> "active", chan |-> ch, ended |-> SessionDefaults.ended,
     notes |-> SessionDefaults.notes,
     notes_generated |-> SessionDefaults.notes_generated]

\* (variant: the lookup ignores the status column)
GetCompletedAnyStatus(sid) == sessions[sid]

\* VoiceSession.objects.get(session_id=sid, status='completed'), or None
GetCompleted(sid) ==
    IF sessions[sid] # NoRow /\ sessions[sid].status = "completed"
    THEN sessions[sid] ELSE NoRow

\* VoiceTranscription.objects.filter(session=session)
RowsOf(sid) == SelectSeq(transcriptions, LAMBDA r : r.session = sid)

\* what generate_notes answers when notes_generated is already set
CachedNotes(row) == PyOr(row.notes, AlreadyText)

\* session.notes = notes; session.notes_generated = True; session.save()
WithNotes(snap, notes) == [snap EXCEPT !.notes = notes, !.notes_generated = TRUE]

IdleNotes == [pc |-> "idle", sid |-> 1, snap |-> NoRow, notes |-> None,
              called |-> 0, before |-> NoRow, ntrans |-> 0]

\* generate_notes returns (ok, text)
NotesReturn(p, ok, text, clean, ntrans) ==
    /\ notesRet' = Append(notesRet,
          [sid |-> notesProc[p].sid, ok |-> ok, text |-> text, clean |-> clean,
           called |-> notesProc[p].called, before |-> notesProc[p].before,
           after |-> sessions'[notesProc[p].sid], ntrans |-> ntrans])
    /\ notesProc' = [notesProc EXCEPT ![p] = IdleNotes]

NotesInFlight == Cardinality({p \in NotesCallers : notesProc[p].pc # "idle"})

\* generate_notes up to its first suspension after get_session
NotesGet(p, sid, dbOk) ==
    /\ notesProc[p].pc = "idle"
    /\ Len(notesRet) + NotesInFlight < MaxCalls
    /\ UNCHANGED <<sessions, offNotes>>
    /\ LET row == GetCompleted(sid)
           ret(ok, text) ==
              /\ notesRet' = Append(notesRet,
                    [sid |-> sid, ok |-> ok, text |-> text, clean |-> dbOk,
                     called |-> 0, before |-> sessions[sid],
                     after |-> sessions[sid], ntrans |-> Len(RowsOf(sid))])
              /\ UNCHANGED notesProc
       IN IF ~dbOk THEN ret(FALSE, ExcText)
          ELSE IF row = NoRow THEN ret(FALSE, NotFoundText)
          ELSE IF row.notes_generated THEN ret(TRUE, CachedNotes(row))
          ELSE /\ notesProc' = [notesProc EXCEPT ![p] =
                     [IdleNotes EXCEPT !.pc = "trans", !.sid = sid, !.snap = row,
                                       !.before = sessions[sid]]]
               /\ UNCHANGED notesRet

\* ... resumed with the transcription rows; _generate_structured_notes
\* returns at once when no API key is configured
NotesTrans(p, dbOk) ==
    /\ notesProc[p].pc = "trans"
    /\ UNCHANGED <<sessions, offNotes>>
    /\ LET n == Len(RowsOf(notesProc[p].sid)) IN
       IF ~dbOk THEN NotesReturn(p, FALSE, ExcText, FALSE, n)
       ELSE IF n = 0 THEN NotesReturn(p, FALSE, NoTransText, TRUE, n)
       ELSE /\ notesProc' = [notesProc EXCEPT ![p].ntrans = n,
                  ![p].pc = IF apiKey THEN "api" ELSE "save",
                  ![p].notes = IF apiKey THEN None ELSE NoKeyText]
            /\ UNCHANGED notesRet

\* ... resumed by the chat-completions call: a response, or an exception
NotesApi(p, raised, out) ==
    /\ notesProc[p].pc = "api"
    /\ notesProc' = [notesProc EXCEPT ![p].pc = "save", ![p].called = 1,
          ![p].notes = IF raised THEN ApiErrText ELSE Strip(out)]
    /\ UNCHANGED <<sessions, notesRet, offNotes>>

\* ... resumed by update_session
NotesSave(p, dbOk) ==
    /\ notesProc[p].pc = "save"
    /\ UNCHANGED offNotes
    /\ IF dbOk
       THEN /\ sessions' = [sessions EXCEPT ![notesProc[p].sid] =
                               WithNotes(notesProc[p].snap, notesProc[p].notes)]
            /\ NotesReturn(p, TRUE, notesProc[p].notes, TRUE, notesProc[p].ntrans)
       ELSE /\ sessions' = sessions
            /\ NotesReturn(p, FALSE, ExcText, FALSE, notesProc[p].ntrans)


\* requests, tasks and the backfill run before they start
IdleTask == [pc |-> "none", session |-> 0, left |-> 0, cancel |-> FALSE]
IdleStart == [pc |-> "idle", n |-> 0]
IdleStop == [pc |-> "idle", task |-> 0, client |-> 0, session |-> 0, quiet |-> FALSE]
NoReturn == [op |-> "none", result |-> "none"]
IdleBackfill == [pc |-> "off", skip |-> FALSE, limit |-> 0, todo |-> <<>>,
                 existing |-> {}, pos |-> 0, new_count |-> 0, total_new |-> 0]
NoBfLog == [added |-> 0, addedTotal |-> 0, counts |-> <<>>, calls |-> {},
            hadRecent |-> {}, atStart |-> {}, reported |-> FALSE]

(***************************************************************************)
(* Voice Session Recorder.  A request or task takes one step per await:    *)
(* the step runs the code from one suspension to the next.  The client     *)
(* library keeps one voice client per guild: connect() raises while one is *)
(* registered, and a connection the platform drops is unregistered.        *)
(***************************************************************************)
Has(map, ch) == map[ch] # 0

offRecorder == <<messages, reactions, users, cfgVars, lastEv, handlers, notesCallVars,
                 bfVars, viewVars>>

StartReturn(r, res) ==
    /\ startProc' = [startProc EXCEPT ![r] = IdleStart]
    /\ returned' = [op |-> "start", result |-> res]

\* (variant: the guard tests the feature switch only)
StartGuardEnabledOnly(ch) == enabled

\* the guard of start_recording: feature enabled and channel not active
StartGuard(ch) == enabled /\ ~Has(active_sessions, ch)

\* start_recording up to the suspension in voice_channel.connect()
StartBegin(r, ch) ==
    /\ startProc[r].pc = "idle"
    /\ UNCHANGED <<sessVars, channels, active_sessions, voice_clients, sinks,
                   transcription_tasks, tasks, stopProc, offRecorder>>
    /\ IF ~StartGuard(ch)
       THEN /\ StartReturn(r, IF enabled THEN "already" ELSE "disabled")
            /\ UNCHANGED <<connections, nStarts>>
       ELSE IF connections # {}
       THEN /\ StartReturn(r, "error")
            /\ UNCHANGED <<connections, nStarts>>
       ELSE /\ nStarts < MaxSessions
            /\ nStarts' = nStarts + 1
            /\ connections' = {nStarts + 1}
            /\ startProc' = [startProc EXCEPT ![r] =
                                [pc |-> "connect", n |-> nStarts + 1]]
            /\ UNCHANGED returned

\* ... resumed by connect(); then voice_client.start_recording(sink, ...)
StartConnected(r, ch, out) ==
    /\ startProc[r].pc = "connect"
    /\ UNCHANGED <<sessVars, channels, active_sessions, transcription_tasks,
                   tasks, stopProc, nStarts, offRecorder>>
    /\ IF out = "connect_raises"
       THEN /\ connections' = connections \ {startProc[r].n}
            /\ StartReturn(r, "error")
            /\ UNCHANGED <<voice_clients, sinks>>
       ELSE /\ voice_clients' = [voice_clients EXCEPT ![ch] = startProc[r].n]
            /\ UNCHANGED connections
            /\ IF out = "record_raises"
               THEN /\ StartReturn(r, "error")
                    /\ UNCHANGED sinks
               ELSE /\ sinks' = [sinks EXCEPT ![ch] = startProc[r].n]
                    /\ startProc' = [startProc EXCEPT ![r].pc = "getchan"]
                    /\ UNCHANGED returned

\* ... resumed by get_or_create_channel
StartGotChannel(r, ch, dbOk) ==
    /\ startProc[r].pc = "getchan"
    /\ UNCHANGED <<sessVars, active_sessions, voice_clients, sinks,
                   transcription_tasks, connections, tasks, stopProc, nStarts,
                   offRecorder>>
    /\ IF dbOk /\ ChannelFound(ch)
       THEN /\ channels' = channels \cup {ch}
            /\ startProc' = [startProc EXCEPT ![r].pc = "create"]
            /\ UNCHANGED returned
       ELSE /\ channels' = channels
            /\ StartReturn(r, "error")

\* ... resumed by create_session; registers the session and launches the task
StartCreated(r, ch, dbOk) ==
    /\ startProc[r].pc = "create"
    /\ UNCHANGED <<transcriptions, channels, voice_clients, sinks, connections,
                   stopProc, nStarts, offRecorder>>
    /\ IF dbOk
       THEN /\ sessions' = [sessions EXCEPT ![startProc[r].n] = NewSession(ch)]
            /\ active_sessions' = [active_sessions EXCEPT ![ch] = startProc[r].n]
            /\ tasks' = [tasks EXCEPT ![startProc[r].n] = [IdleTask EXCEPT !.pc = "new"]]
            /\ transcription_tasks' = [transcription_tasks EXCEPT ![ch] = startProc[r].n]
            /\ StartReturn(r, "ok")
       ELSE /\ StartReturn(r, "error")
            /\ UNCHANGED <<sessions, active_sessions, tasks, transcription_tasks>>

\* the platform drops an established voice connection
ConnectionLost(c) ==
    /\ c \in connections
    /\ \A r \in StartReqs : ~(startProc[r].pc = "connect" /\ startProc[r].n = c)
    /\ connections' = connections \ {c}
    /\ UNCHANGED <<storeVars, sessVars, active_sessions, voice_clients, sinks,
                   transcription_tasks, tasks, startProc, stopProc, nStarts,
                   returned, cfgVars, lastEv, handlers, notesCallVars, bfVars, viewVars>>

(***************************************************************************)
(* _transcribe_audio_loop, one task per successful start.                  *)
(***************************************************************************)
Running(t) == tasks[t].pc \in {"new", "sleep", "stt", "store"}

taskFrame == <<sessions, channels, active_sessions, voice_clients, sinks,
               transcription_tasks, connections, startProc, stopProc, nStarts,
               returned, offRecorder>>

\* the VoiceTranscription row _store_transcription creates
TranscriptionRow(t) ==
    [session |-> tasks[t].session,
     user |-> IF tasks[t].left \in users THEN tasks[t].left ELSE NullId,
     text |-> <<"t">>]

\* (variant: the first speaker's turn is the last of the cycle)
AfterSpeakerEndsCycle(t, ch) ==
    [tasks EXCEPT ![t].left = 0,
                  ![t].pc = IF Has(active_sessions, ch) THEN "sleep" ELSE "done"]

\* end of one speaker's turn: next speaker, or back to the while condition
AfterSpeaker(t, ch) ==
    [tasks EXCEPT ![t].left = @ - 1,
                  ![t].pc = IF tasks[t].left > 1 THEN "stt"
                            ELSE IF Has(active_sessions, ch) THEN "sleep" ELSE "done"]

\* first step of the task: session = self.active_sessions.get(channel_id)
TaskStart(t, ch) ==
    /\ tasks[t].pc = "new" /\ ~tasks[t].cancel
    /\ tasks' = [tasks EXCEPT ![t].session = active_sessions[ch],
                              ![t].pc = IF Has(active_sessions, ch) THEN "sleep" ELSE "done"]
    /\ UNCHANGED <<transcriptions, taskFrame>>

\* ... resumed by asyncio.sleep: n speakers have audio worth sending
TaskWake(t, ch, n, crash) ==
    /\ tasks[t].pc = "sleep" /\ ~tasks[t].cancel
    /\ tasks' = IF ~Has(active_sessions, ch) \/ crash THEN [tasks EXCEPT ![t].pc = "done"]
                ELSE IF n = 0 \/ ~apiKey THEN tasks
                ELSE [tasks EXCEPT ![t].pc = "stt", ![t].left = n]
    /\ UNCHANGED <<transcriptions, taskFrame>>

\* ... resumed by the speech-to-text call.  The task's sink keeps one file
\* per speaker for the whole recording and the loop never clears it; the
\* call uploads the file as it is (f.read()).
TaskTranscribed(t, ch, hasText) ==
    /\ tasks[t].pc = "stt" /\ ~tasks[t].cancel
    /\ tasks' = IF hasText THEN [tasks EXCEPT ![t].pc = "store"] ELSE AfterSpeaker(t, ch)
    /\ UNCHANGED <<transcriptions, taskFrame>>

\* ... resumed by _store_transcription
TaskStored(t, ch, dbOk) ==
    /\ tasks[t].pc = "store" /\ ~tasks[t].cancel
    /\ dbOk => Len(transcriptions) < MaxRows
    /\ transcriptions' = IF dbOk THEN Append(transcriptions, TranscriptionRow(t))
                         ELSE transcriptions
    /\ tasks' = AfterSpeaker(t, ch)
    /\ UNCHANGED taskFrame

\* CancelledError is raised at the await the task is suspended in; an insert
\* that already runs in the database thread may still land
TaskCancelled(t, landed) ==
    /\ Running(t) /\ tasks[t].cancel
    /\ landed => (tasks[t].pc = "store" /\ Len(transcriptions) < MaxRows)
    /\ transcriptions' = IF landed THEN Append(transcriptions, TranscriptionRow(t))
                         ELSE transcriptions
    /\ tasks' = [tasks EXCEPT ![t].pc = "done"]
    /\ UNCHANGED taskFrame

(***************************************************************************)
(* stop_recording.                                                         *)
(***************************************************************************)
stopFrame == <<transcriptions, channels, startProc, nStarts, offRecorder>>

StopReturn(q, res) ==
    /\ stopProc' = [stopProc EXCEPT ![q] = IdleStop]
    /\ returned' = [op |-> "stop", result |-> res]

StopGoto(q, rec) ==
    /\ stopProc' = [stopProc EXCEPT ![q] = rec]
    /\ UNCHANGED returned

\* "Stop recording" up to the suspension in disconnect() or, without a voice
\* client, "Clean up sink" up to the suspension in update_session
StopCapture(q, ch, recOk, me) ==
    IF Has(voice_clients, ch)
    THEN /\ sinks' = sinks
         /\ IF recOk
            THEN StopGoto(q, [me EXCEPT !.pc = "disconnect", !.client = voice_clients[ch]])
            ELSE StopReturn(q, "error")
    ELSE /\ sinks' = [sinks EXCEPT ![ch] = 0]
         /\ IF Has(active_sessions, ch)
            THEN StopGoto(q, [me EXCEPT !.pc = "save", !.session = active_sessions[ch]])
            ELSE StopReturn(q, "error")

\* the task has finished (variant: stop does not wait for the cancelled task)
TaskAwaitedNoWait(t) == TRUE

\* await self.transcription_tasks[channel_id] returns
TaskAwaited(t) == tasks[t].pc \in {"none", "done"}

\* stop_recording up to its first suspension
StopBegin(q, ch, recOk) ==
    /\ stopProc[q].pc = "idle"
    /\ UNCHANGED <<sessions, active_sessions, voice_clients, transcription_tasks,
                   connections, stopFrame>>
    /\ LET me == [IdleStop EXCEPT !.quiet = \A r \in StartReqs : startProc[r].pc = "idle"] IN
       IF ~Has(active_sessions, ch)
       THEN /\ StopReturn(q, "not_active")
            /\ UNCHANGED <<tasks, sinks>>
       ELSE IF Has(transcription_tasks, ch)
       THEN /\ tasks' = [tasks EXCEPT ![transcription_tasks[ch]].cancel =
                            Running(transcription_tasks[ch])]
            /\ StopGoto(q, [me EXCEPT !.pc = "awaitTask", !.task = transcription_tasks[ch]])
            /\ UNCHANGED sinks
       ELSE /\ StopCapture(q, ch, recOk, me)
            /\ UNCHANGED tasks

\* ... resumed when the cancelled task has finished
StopTaskDone(q, ch, recOk) ==
    /\ stopProc[q].pc = "awaitTask"
    /\ TaskAwaited(stopProc[q].task)
    /\ UNCHANGED <<sessions, active_sessions, voice_clients, connections, tasks, stopFrame>>
    /\ IF ~Has(transcription_tasks, ch)
       THEN /\ StopReturn(q, "error")
            /\ UNCHANGED <<transcription_tasks, sinks>>
       ELSE /\ transcription_tasks' = [transcription_tasks EXCEPT ![ch] = 0]
            /\ StopCapture(q, ch, recOk, stopProc[q])

\* ... resumed by voice_client.disconnect()
StopDisconnected(q, ch, ok) ==
    /\ stopProc[q].pc = "disconnect"
    /\ UNCHANGED <<sessions, active_sessions, transcription_tasks, tasks, stopFrame>>
    /\ IF ~ok
       THEN /\ StopReturn(q, "error")
            /\ UNCHANGED <<voice_clients, sinks, connections>>
       ELSE /\ connections' = connections \ {stopProc[q].client}
            /\ IF ~Has(voice_clients, ch)
               THEN /\ StopReturn(q, "error")
                    /\ UNCHANGED <<voice_clients, sinks>>
               ELSE /\ voice_clients' = [voice_clients EXCEPT ![ch] = 0]
                    /\ sinks' = [sinks EXCEPT ![ch] = 0]
                    /\ IF Has(active_sessions, ch)
                       THEN StopGoto(q, [stopProc[q] EXCEPT !.pc = "save",
                                                            !.session = active_sessions[ch]])
                       ELSE StopReturn(q, "error")

\* session.status = 'completed'; session.ended_at = now; session.save()
Completed(ch) == [NewSession(ch) EXCEPT !.status = "completed", !.ended = TRUE]

\* ... resumed by update_session
StopSaved(q, ch, dbOk) ==
    /\ stopProc[q].pc = "save"
    /\ UNCHANGED <<voice_clients, sinks, transcription_tasks, connections, tasks, stopFrame>>
    /\ IF ~dbOk
       THEN /\ StopReturn(q, "error")
            /\ UNCHANGED <<sessions, active_sessions>>
       ELSE /\ sessions' = [sessions EXCEPT ![stopProc[q].session] = Completed(ch)]
            /\ IF Has(active_sessions, ch)
               THEN /\ active_sessions' = [active_sessions EXCEPT ![ch] = 0]
                    /\ StopReturn(q, "ok")
               ELSE /\ active_sessions' = active_sessions
                    /\ StopReturn(q, "error")

(***************************************************************************)
(* Backfill Job: backfill_messages run for all channels of the one guild   *)
(* (--channel-id and --server-id unset).  Every message of the model lies  *)
(* inside the lookback window and every channel in the store is a text     *)
(* channel.  The run takes one step per await; the listener's handlers run *)
(* between its steps.                                                      *)
(***************************************************************************)
backfillFrame == <<sessVars, cfgVars, lastEv, handlers, notesCallVars, recVars, viewVars>>

\* the elements of a finite set of numbers in ascending order
RECURSIVE Ascending(_)
Ascending(S) ==
    IF S = {} THEN <<>>
    ELSE LET lo == CHOOSE x \in S : \A y \in S : x <= y IN <<lo>> \o Ascending(S \ {lo})

\* message ids with a DiscordMessage row in the channel
StoredIn(ch) == {i \in MsgIds : messages[i] # NoRow /\ messages[i].chan = ch}

\* the skip_existing test (variant: no channel counts as having messages)
HasRecentNever(ch) == FALSE

\* DiscordMessage.objects.filter(channel=..., timestamp__gte=cutoff).exists()
HasRecent(ch) == StoredIn(ch) # {}

\* discord_channel.history(limit=limit, after=cutoff_time, oldest_first=True)
History(ch, limit) ==
    LET all == Ascending({i \in MsgIds : MsgChan(i) = ch}) IN
    IF limit = 0 \/ limit >= Len(all) THEN all ELSE SubSeq(all, 1, limit)

Limits == {0, 1}
HistoryReactions == {{}, {[emoji |-> [kind |-> "custom", name |-> "blob", id |-> 7],
                          count |-> 1]}}

\* the reaction the live listener reports while the run is going on
ListenerReaction == [emoji |-> [kind |-> "custom", name |-> "blob", id |-> 7], count |-> 2]

BfCur == Head(bf.todo)

\* the ids with a row when backfill_channel is entered for the head of todo
AtStart(todo) == IF todo = <<>> THEN {} ELSE {i \in MsgIds : messages[i] # NoRow}

\* existing_ids (variant: the snapshot is empty)
ExistingIdsNone(ch) == {}

\* set(DiscordMessage.objects.filter(channel=...).values_list('message_id'))
ExistingIds(ch) == StoredIn(ch)

\* the run gives up: the outer except, then finally bot.close()
BfClosed == [bf EXCEPT !.pc = "closed"]

\* (variant: the channel loop ends with the first channel)
BfNextChannelLast(total) ==
    [bf EXCEPT !.todo = Tail(bf.todo), !.total_new = total, !.pc = "report"]

\* back in the channel loop of backfill_messages after one channel
BfNextChannel(total) ==
    [bf EXCEPT !.todo = Tail(bf.todo), !.total_new = total,
               !.pc = IF Len(bf.todo) > 1 THEN "resolve" ELSE "report"]

\* backfill_channel returned n: the run adds it to total_new
BfReturned(n) ==
    /\ bf' = BfNextChannel(bf.total_new + n)
    /\ bfLog' = [bfLog EXCEPT
                    !.counts = Append(@, [chan |-> BfCur, count |-> n, added |-> bfLog.added,
                                          had |-> bfLog.atStart]),
                    !.added = 0, !.atStart = AtStart(Tail(bf.todo))]

\* backfill_channel raised: the loop logs the error and goes on
BfRaised ==
    /\ bf' = BfNextChannel(bf.total_new)
    /\ bfLog' = [bfLog EXCEPT !.added = 0, !.atStart = AtStart(Tail(bf.todo))]

\* login, connect, wait_until_ready and sync_guild_data taken as one stage
\* that is passed or raises (step by step: BfLogin, BfConnectReturns)
BfConnect(ok) ==
    /\ bf.pc = "start"
    /\ bf' = IF ok THEN [bf EXCEPT !.pc = "select"] ELSE BfClosed
    /\ UNCHANGED <<storeVars, bfLog, backfillFrame>>

\* await bot.login(token): the run is inside bot.connect afterwards
BfLogin(ok) ==
    /\ bf.pc = "start"
    /\ bf' = IF ok THEN [bf EXCEPT !.pc = "connecting"] ELSE BfClosed
    /\ UNCHANGED <<storeVars, bfLog, backfillFrame>>

\* await bot.connect(reconnect=False) runs the gateway loop and returns only
\* once the connection has ended: after a clean close it returns, with the
\* client closed and its ready flag cleared, so that wait_until_ready never
\* returns; any other end raises into the outer except and finally
BfConnectReturns(clean) ==
    /\ bf.pc = "connecting"
    /\ bf' = IF clean THEN [bf EXCEPT !.pc = "wait_ready"] ELSE BfClosed
    /\ UNCHANGED <<storeVars, bfLog, backfillFrame>>

\* get_channels_to_backfill and the "No channels found" return
BfSelect(dbOk) ==
    /\ bf.pc = "select"
    /\ UNCHANGED <<storeVars, backfillFrame>>
    /\ IF ~dbOk
       THEN bf' = BfClosed /\ UNCHANGED bfLog
       ELSE LET chosen == {c \in channels : ~(bf.skip /\ HasRecent(c))} IN
            /\ bfLog' = [bfLog EXCEPT !.hadRecent = {c \in channels : StoredIn(c) # {}},
                                       !.atStart = AtStart(Ascending(chosen))]
            /\ bf' = IF chosen = {} THEN BfClosed
                     ELSE [bf EXCEPT !.todo = Ascending(chosen), !.pc = "resolve"]

\* backfill_channel: bot.get_channel / bot.fetch_channel and the type test
BfResolve(out) ==
    /\ bf.pc = "resolve"
    /\ UNCHANGED <<storeVars, backfillFrame>>
    /\ CASE out = "ok" -> bf' = [bf EXCEPT !.pc = "snapshot"] /\ UNCHANGED bfLog
         [] out \in {"not_found", "forbidden"} -> BfReturned(0)
         [] OTHER -> BfRaised

\* ... resumed by the existing_ids query
BfSnapshot(dbOk) ==
    /\ bf.pc = "snapshot"
    /\ UNCHANGED <<storeVars, backfillFrame>>
    /\ IF dbOk
       THEN /\ bf' = [bf EXCEPT !.existing = ExistingIds(BfCur), !.pos = 1,
                                !.new_count = 0, !.pc = "history"]
            /\ UNCHANGED bfLog
       ELSE BfRaised

\* one turn of the history loop: the platform hands over the next message
BfMessage(c, ps, fault) ==
    /\ bf.pc = "history"
    /\ bf.pos <= Len(History(BfCur, bf.limit))
    /\ UNCHANGED backfillFrame
    /\ LET i == History(BfCur, bf.limit)[bf.pos]
           m == PMsg(i, c, FALSE, ps) IN
       IF i \in bf.existing \/ IsBot(MsgAuthor(i))
       THEN /\ bf' = [bf EXCEPT !.pos = @ + 1]
            /\ UNCHANGED <<storeVars, bfLog>>
       ELSE /\ store_message(m, fault)
            /\ bf' = [bf EXCEPT !.pos = @ + 1, !.new_count = @ + 1]
            /\ bfLog' = [bfLog EXCEPT
                            !.calls = @ \cup {[id |-> i, present |-> messages[i] # NoRow]},
                            !.added = @ + (IF MessageCreated(m, fault) THEN 1 ELSE 0),
                            !.addedTotal = @ + (IF MessageCreated(m, fault) THEN 1 ELSE 0)]

\* the history loop ends (exhausted, or Forbidden / HTTPException while
\* fetching): return new_count
BfChannelDone(httpError) ==
    /\ bf.pc = "history"
    /\ httpError \/ bf.pos > Len(History(BfCur, bf.limit))
    /\ BfReturned(bf.new_count)
    /\ UNCHANGED <<storeVars, backfillFrame>>

\* "Backfill complete! Total: ..." and bot.close()
BfReport ==
    /\ bf.pc = "report"
    /\ bf' = BfClosed
    /\ bfLog' = [bfLog EXCEPT !.reported = TRUE]
    /\ UNCHANGED <<storeVars, backfillFrame>>

(***************************************************************************)
(* The summary command (SummaryCog.summary_command) and the summary        *)
(* generator with its template fallback.                                   *)
(***************************************************************************)
\* queryset[:50], the selection size when no limit is given
DefaultLimit == 50

\* DiscordUser.username, one per account
Username(u) == <<"user", u>>

\* hours since message i was written: higher ids are newer
Age(i) == MaxMsg - i

\* a command argument: not given, not a number, or int(arg)
SummaryArgs ==
    {[kind |-> "none", val |-> 0], [kind |-> "bad", val |-> 0]}
    \cup {[kind |-> "int", val |-> n] : n \in {-1, 0, 1}}

\* `if hours:` and `if limit:` -- None and 0 are both false
ArgSet(a) == a.kind = "int" /\ a.val # 0

\* the filtered queryset of get_messages, before slicing
SummaryPool(ch, hours) ==
    {i \in MsgIds : /\ messages[i] # NoRow
                    /\ messages[i].chan = ch
                    /\ ~IsBot(messages[i].author)
                    /\ (ArgSet(hours) => Age(i) <= hours.val)}

RECURSIVE Descending(_)
Descending(S) ==
    IF S = {} THEN <<>>
    ELSE LET hi == CHOOSE x \in S : \A y \in S : x >= y IN <<hi>> \o Descending(S \ {hi})

Reverse(q) == [k \in 1..Len(q) |-> q[Len(q) + 1 - k]]

\* queryset[:n] of the newest-first ordering; a negative n is refused by
\* the ORM
SliceRaises(limit) == ArgSet(limit) /\ limit.val < 0

get_messages(ch, hours, limit) ==
    LET q == Descending(SummaryPool(ch, hours))
        n == IF ArgSet(limit) THEN limit.val ELSE DefaultLimit
    IN  IF Len(q) <= n THEN q ELSE SubSeq(q, 1, n)

\* msg.author.display_name or msg.author.username
AuthorName(u) == PyOr(display[u], Username(u))

unique_authors(sel) == {AuthorName(messages[sel[k]].author) : k \in 1..Len(sel)}

\* the lines of conversation_text: the selected messages, oldest first,
\* whose stripped content is not empty
conversation_text(sel) ==
    SelectSeq(Reverse(sel), LAMBDA i : Strip(messages[i].content) # <<>>)

\* the message of an exception raised by the API call
\* outcomes of the attempt to obtain a summary from the API
ApiOutcomes ==
    {[kind |-> "ok", msg |-> <<>>], [kind |-> "import_error", msg |-> <<>>]}
    \cup {[kind |-> "error", msg |-> e] :
             e \in {<<"insufficient_quota">>, <<"Quota", "exceeded">>,
                    <<"429", "rate", "limit">>, <<"timeout">>}}

\* "quota" in error_msg.lower() or "insufficient_quota" in error_msg.lower()
is_quota_issue(msg) ==
    LET lower(tok) == IF tok = "Quota" THEN "quota" ELSE tok IN
    \E k \in 1..Len(msg) : lower(msg[k]) \in {"quota", "insufficient_quota"}

\* the closing paragraph of _generate_basic_summary
BasicGuidance(api_key_was_set, quota_issue) ==
    IF api_key_was_set
    THEN IF quota_issue THEN "quota" ELSE "failing"
    ELSE "setup_key"

\* generate_influencer_summary: the text that is returned, as the guidance
\* it carries ("generated" for the text of the API), and whether the API
\* was called
InfluencerSummary(api) ==
    IF ~apiKey THEN [guidance |-> BasicGuidance(FALSE, FALSE), called |-> FALSE]
    ELSE IF api.kind = "ok" THEN [guidance |-> "generated", called |-> TRUE]
    ELSE IF api.kind = "import_error"
         THEN [guidance |-> BasicGuidance(FALSE, FALSE), called |-> FALSE]
    ELSE [guidance |-> BasicGuidance(TRUE, is_quota_issue(api.msg)), called |-> TRUE]

NoReply == [kind |-> "none", ids |-> <<>>, n |-> 0, k |-> 0, guidance |-> "none",
            called |-> FALSE, key |-> FALSE, api |-> [kind |-> "none", msg |-> <<>>]]

\* `if not conversation_text`
NoTextNever(sel) == FALSE

NoText(sel) == conversation_text(sel) = <<>>

\* what the command sends for a selection that was fetched; key and api
\* record the configuration and the API outcome the reply was built under

SummaryReply(sel, api) ==
    IF sel = <<>> THEN [NoReply EXCEPT !.kind = "no_messages", !.ids = sel]
    ELSE IF NoText(sel) THEN [NoReply EXCEPT !.kind = "only_media", !.ids = sel]
    ELSE LET out == InfluencerSummary(api) IN
         [kind |-> "summary", ids |-> sel, n |-> Len(sel),
          k |-> Cardinality(unique_authors(sel)), guidance |-> out.guidance,
          called |-> out.called, key |-> apiKey,
          api |-> api]

summary_command(ch, hours, limit, dbOk, api) ==
    /\ reply' = IF hours.kind = "bad" THEN [NoReply EXCEPT !.kind = "bad_hours", !.ids = <<>>]
                ELSE IF limit.kind = "bad" THEN [NoReply EXCEPT !.kind = "bad_limit", !.ids = <<>>]
                ELSE IF ~dbOk \/ ~ChannelFound(ch) \/ SliceRaises(limit)
                     THEN [NoReply EXCEPT !.kind = "error", !.ids = <<>>]
                ELSE SummaryReply(get_messages(ch, hours, limit), api)
    /\ channels' = IF hours.kind # "bad" /\ limit.kind # "bad" /\ dbOk /\ ChannelFound(ch)
                   THEN channels \cup {ch} ELSE channels
    /\ UNCHANGED <<messages, reactions, users, sessVars, cfgVars, lastEv, handlers,
                   notesCallVars, recVars, bfVars, display, response>>

(***************************************************************************)
(* Dashboard: the aggregates and the statistics endpoint                   *)
(* (dashboard/views.py).  h is the number of hours since midnight.         *)
(***************************************************************************)
Stored == {i \in MsgIds : messages[i] # NoRow}

\* timestamp__date=date for the date d days before today
OnDay(i, h, d) == (IF Age(i) <= h THEN 0 ELSE 1) = d

get_dashboard_stats(h) ==
    [total_messages |-> Cardinality(Stored),
     total_users |-> Cardinality(users),
     total_channels |-> Cardinality(channels),
     total_servers |-> Cardinality(servers),
     messages_today |-> Cardinality({i \in Stored : OnDay(i, h, 0)}),
     messages_this_week |-> Cardinality({i \in Stored : Age(i) <= 7 * 24}),
     messages_last_24h |-> Cardinality({i \in Stored : Age(i) <= 24}),
     active_users_today |->
         Cardinality({messages[i].author : i \in {j \in Stored : OnDay(j, h, 0)}}),
     active_users_week |->
         Cardinality({messages[i].author : i \in {j \in Stored : Age(j) <= 7 * 24}})]

\* annotate(count).filter(count > 0).order_by('-count')[:n] over the keys S,
\* where of maps each message counted to its key
RECURSIVE TopN(_, _, _)
TopN(S, of, n) ==
    LET cnt(x) == Cardinality({i \in DOMAIN of : of[i] = x})
        live == {x \in S : cnt(x) > 0}
    IN  IF live = {} \/ n = 0 THEN <<>>
        ELSE LET top == CHOOSE x \in live : \A y \in live :
                            cnt(x) > cnt(y) \/ (cnt(x) = cnt(y) /\ x <= y)
             IN  <<[key |-> top, count |-> cnt(top)]>>
                 \o TopN(S \ {top}, of, n - 1)

\* top_channels is left a QuerySet; the per-day entries are made lists
get_channel_stats(h) ==
    LET week == {j \in Stored : Age(j) <= 7 * 24}
        day(d) == {j \in Stored : OnDay(j, h, d)}
    IN  [top_channels |->
            [type |-> "QuerySet",
             rows |-> TopN(channels, [i \in week |-> messages[i].chan], 10)],
         channel_activity |-> [d \in 0..6 |->
            [type |-> "list",
             rows |-> TopN(channels, [i \in day(d) |-> messages[i].chan], 5)]]]

get_user_stats(h) ==
    LET week == {j \in Stored : Age(j) <= 7 * 24}
        day(d) == {j \in Stored : OnDay(j, h, d)}
    IN  [top_users |->
            [type |-> "QuerySet",
             rows |-> TopN({u \in users : ~IsBot(u)},
                           [i \in week |-> messages[i].author], 10)],
         user_activity |-> [d \in 0..6 |->
            [type |-> "list",
             rows |-> TopN(users, [i \in day(d) |-> messages[i].author], 5)]]]

\* JsonResponse encodes numbers, strings, dicts and lists; for any other
\* object, a QuerySet included, the encoder raises TypeError
Encodable(v) == v.type = "list"

NoResponse == [status |-> "none"]

api_stats(h) ==
    /\ response' =
          LET stats == get_dashboard_stats(h)
              channel_stats == get_channel_stats(h)
              user_stats == get_user_stats(h)
          IN  [status |-> IF Encodable(channel_stats.top_channels)
                             /\ Encodable(user_stats.top_users)
                          THEN "ok" ELSE "raised",
               stats |-> stats, channel_stats |-> channel_stats,
               user_stats |-> user_stats]
    /\ UNCHANGED <<storeVars, sessVars, cfgVars, lastEv, handlers, notesCallVars, recVars,
                   bfVars, display, reply, asked>>

(***************************************************************************)
(* Initial conditions of the components.                                   *)
(***************************************************************************)
StoreEmpty ==
    /\ messages = [i \in MsgIds |-> NoRow]
    /\ reactions = <<>>
    /\ users = {}
    /\ lastEv = NoEv
    /\ handlers = [h \in Handlers |-> IdleHandler]

SessionsEmpty ==
    /\ sessions = [s \in SessionIds |-> NoRow]
    /\ transcriptions = <<>>

NotesIdle ==
    /\ notesProc = [p \in NotesCallers |-> IdleNotes]
    /\ notesRet = <<>>

RecorderIdle ==
    /\ active_sessions = [c \in VoiceChans |-> 0]
    /\ voice_clients = [c \in VoiceChans |-> 0]
    /\ sinks = [c \in VoiceChans |-> 0]
    /\ transcription_tasks = [c \in VoiceChans |-> 0]
    /\ connections = {}
    /\ tasks = [t \in SessionIds |-> IdleTask]
    /\ startProc = [r \in StartReqs |-> IdleStart]
    /\ stopProc = [q \in StopReqs |-> IdleStop]
    /\ nStarts = 0
    /\ returned = NoReturn

ViewIdle ==
    /\ display = [u \in UserIds |-> <<>>]
    /\ reply = NoReply
    /\ response = NoResponse
    /\ asked = <<>>

BackfillOff ==
    /\ bf = IdleBackfill
    /\ bfLog = NoBfLog

InitListener ==
    /\ StoreEmpty
    /\ channels \in {{}, ChanIds}
    /\ servers \in {{}, {ChanGuild(c) : c \in ChanIds}}
    /\ channels # {} => servers # {}
    /\ SessionsEmpty /\ NotesIdle /\ ViewIdle /\ RecorderIdle /\ BackfillOff
    /\ apiKey = FALSE /\ enabled = FALSE

NextListener ==
    \/ \E i \in EvMsgIds, c \in Contents, f \in Faults : on_message(i, c, f)
    \/ \E i \in EvMsgIds, c \in Contents, f \in {"none", "message"} : on_message_edit(i, c, f)
    \/ \E i \in EvMsgIds, f \in {"none", "message"} : on_message_delete(i, f)
    \/ \E i \in EvMsgIds, p \in Payloads, b \in BOOLEAN, f \in {"none", "message"} :
          on_reaction_add(i, p, b, f)
    \/ \E i \in EvMsgIds, p \in Payloads, b \in BOOLEAN, f \in {"none", "message"} :
          on_reaction_remove(i, p, b, f)

SpecListener == InitListener /\ [][NextListener]_vars

(***************************************************************************)
(* generate_notes called again and again, one call at a time, on sessions  *)
(* the recorder has left behind.                                           *)
(***************************************************************************)
SessionRows ==
    {NoRow} \cup {[NewSession(1) EXCEPT !.status = st, !.ended = (st = "completed")] :
                     st \in {"active", "completed"}}

TranscriptionRows(ss) ==
    {[session |-> s, user |-> u, text |-> <<"t">>] :
        s \in {x \in SessionIds : ss[x] # NoRow}, u \in {NullId}}

SeqsUpTo(S, n) == UNION {[1..k -> S] : k \in 0..n}

InitNotes ==
    /\ StoreEmpty /\ channels = ChanIds
    /\ sessions \in [SessionIds -> SessionRows]
    /\ transcriptions \in SeqsUpTo(TranscriptionRows(sessions), MaxRows)
    /\ apiKey \in BOOLEAN /\ enabled = TRUE
    /\ servers = {ChanGuild(c) : c \in ChanIds}
    /\ NotesIdle /\ ViewIdle /\ RecorderIdle /\ BackfillOff

NextNotes ==
    \/ \E sid \in SessionIds, ok \in BOOLEAN : NotesGet(1, sid, ok)
    \/ \E ok \in BOOLEAN : NotesTrans(1, ok)
    \/ \E raised \in BOOLEAN, out \in LlmOutputs : NotesApi(1, raised, out)
    \/ \E ok \in BOOLEAN : NotesSave(1, ok)

SpecNotes == InitNotes /\ [][NextNotes]_vars

\* C1: after each create, edit or delete event of a non-bot author the row of
\* that message id holds the content of the last non-delete event, and no row
\* with that id exists after a delete event.
C1_ContentFollowsLastEvent ==
    (lastEv.kind \in {"create", "edit", "delete"} /\ ~lastEv.bot /\ lastEv.fault = "none")
    => IF lastEv.kind = "delete"
       THEN messages[lastEv.id] = NoRow
       ELSE messages[lastEv.id] # NoRow /\ messages[lastEv.id].content = lastEv.content

\* the key (emoji_name, emoji_id) a reaction event is meant to be stored under
RowsOfKey(rs, mid, e) == Matching(rs, mid, e.name, EmojiId(e))

\* C2: applying the same reaction-count event twice in a row to a stored
\* message leaves exactly one Reaction row for (message, emoji_name, emoji_id),
\* holding the count of the event, also when the emoji has no id.
C2_ReactionUpsertIdempotent ==
    (/\ lastEv.kind = "react_add" /\ lastEv.nth = 2
     /\ ~lastEv.bot /\ lastEv.fault = "none"
     /\ messages[lastEv.id] # NoRow)
    => (/\ Cardinality(RowsOfKey(reactions, lastEv.id, lastEv.payload.emoji)) = 1
        /\ \A k \in RowsOfKey(reactions, lastEv.id, lastEv.payload.emoji) :
              reactions[k].count = lastEv.payload.count)

(***************************************************************************)
(* The recorder under start and stop requests for one voice channel.       *)
(***************************************************************************)
InitRecorder ==
    /\ StoreEmpty /\ channels = ChanIds
    /\ SessionsEmpty /\ NotesIdle /\ ViewIdle /\ RecorderIdle /\ BackfillOff
    /\ apiKey = TRUE /\ enabled \in BOOLEAN
    /\ servers = {ChanGuild(c) : c \in ChanIds}

NextRecorder ==
    \/ \E r \in StartReqs, ch \in VoiceChans : StartBegin(r, ch)
    \/ \E r \in StartReqs, ch \in VoiceChans,
          out \in {"ok", "connect_raises", "record_raises"} : StartConnected(r, ch, out)
    \/ \E r \in StartReqs, ch \in VoiceChans, ok \in BOOLEAN : StartGotChannel(r, ch, ok)
    \/ \E r \in StartReqs, ch \in VoiceChans, ok \in BOOLEAN : StartCreated(r, ch, ok)
    \/ \E c \in SessionIds : ConnectionLost(c)
    \/ \E t \in SessionIds, ch \in VoiceChans : TaskStart(t, ch)
    \/ \E t \in SessionIds, ch \in VoiceChans, n \in 0..MaxSpeakers, crash \in BOOLEAN :
          TaskWake(t, ch, n, crash)
    \/ \E t \in SessionIds, ch \in VoiceChans, txt \in BOOLEAN : TaskTranscribed(t, ch, txt)
    \/ \E t \in SessionIds, ch \in VoiceChans, ok \in BOOLEAN : TaskStored(t, ch, ok)
    \/ \E t \in SessionIds, landed \in BOOLEAN : TaskCancelled(t, landed)
    \/ \E q \in StopReqs, ch \in VoiceChans, ok \in BOOLEAN : StopBegin(q, ch, ok)
    \/ \E q \in StopReqs, ch \in VoiceChans, ok \in BOOLEAN : StopTaskDone(q, ch, ok)
    \/ \E q \in StopReqs, ch \in VoiceChans, ok \in BOOLEAN : StopDisconnected(q, ch, ok)
    \/ \E q \in StopReqs, ch \in VoiceChans, ok \in BOOLEAN : StopSaved(q, ch, ok)

SpecRecorder == InitRecorder /\ [][NextRecorder]_vars

(***************************************************************************)
(* One recording after start_recording has returned success: its periodic  *)
(* task and one stop request.  on_ready has stored some of the guild's      *)
(* members, so a speaker may or may not have a user row.  At a cycle the   *)
(* sink has a file for each of the channel's talkers, or for none yet.     *)
(***************************************************************************)
MaxTalkers == 2

InitLoop ==
    /\ messages = [i \in MsgIds |-> NoRow] /\ reactions = <<>> /\ lastEv = NoEv
    /\ handlers = [h \in Handlers |-> IdleHandler]
    /\ users \in {{}, {1}, 1..MaxTalkers} /\ channels = ChanIds
    /\ sessions = [s \in SessionIds |-> IF s = 1 THEN NewSession(1) ELSE NoRow]
    /\ transcriptions = <<>>
    /\ NotesIdle /\ ViewIdle /\ BackfillOff
    /\ active_sessions = [c \in VoiceChans |-> 1]
    /\ voice_clients = [c \in VoiceChans |-> 1]
    /\ sinks = [c \in VoiceChans |-> 1]
    /\ transcription_tasks = [c \in VoiceChans |-> 1]
    /\ connections = {1}
    /\ tasks = [t \in SessionIds |-> IF t = 1 THEN [IdleTask EXCEPT !.pc = "new"]
                                               ELSE IdleTask]
    /\ startProc = [r \in StartReqs |-> IdleStart]
    /\ stopProc = [q \in StopReqs |-> IdleStop]
    /\ nStarts = 1
    /\ returned = [op |-> "start", result |-> "ok"]
    /\ apiKey = TRUE /\ enabled = TRUE
    /\ servers = {ChanGuild(c) : c \in ChanIds}

NextLoop ==
    \/ \E t \in SessionIds, ch \in VoiceChans : TaskStart(t, ch)
    \/ \E t \in SessionIds, ch \in VoiceChans, n \in {0, MaxTalkers}, crash \in BOOLEAN :
          TaskWake(t, ch, n, crash)
    \/ \E t \in SessionIds, ch \in VoiceChans, txt \in BOOLEAN : TaskTranscribed(t, ch, txt)
    \/ \E t \in SessionIds, ch \in VoiceChans, ok \in BOOLEAN : TaskStored(t, ch, ok)
    \/ \E t \in SessionIds, landed \in BOOLEAN : TaskCancelled(t, landed)
    \/ \E q \in StopReqs, ch \in VoiceChans, ok \in BOOLEAN : StopBegin(q, ch, ok)
    \/ \E q \in StopReqs, ch \in VoiceChans, ok \in BOOLEAN : StopTaskDone(q, ch, ok)
    \/ \E q \in StopReqs, ch \in VoiceChans, ok \in BOOLEAN : StopDisconnected(q, ch, ok)
    \/ \E q \in StopReqs, ch \in VoiceChans, ok \in BOOLEAN : StopSaved(q, ch, ok)

SpecLoop == InitLoop /\ [][NextLoop]_vars

(***************************************************************************)
(* A backfill run next to the live listener.                               *)
(***************************************************************************)
InitBackfill ==
    /\ StoreEmpty /\ channels = ChanIds
    /\ SessionsEmpty /\ NotesIdle /\ ViewIdle /\ RecorderIdle
    /\ apiKey = FALSE /\ enabled = FALSE
    /\ servers = {ChanGuild(c) : c \in ChanIds}
    /\ bf \in {[IdleBackfill EXCEPT !.pc = "start", !.skip = sk, !.limit = l] :
                  sk \in BOOLEAN, l \in Limits}
    /\ bfLog = NoBfLog

NextBackfill ==
    \/ \E ok \in BOOLEAN : BfConnect(ok)
    \/ \E ok \in BOOLEAN : BfSelect(ok)
    \/ \E out \in {"ok", "not_found", "forbidden", "raises"} : BfResolve(out)
    \/ \E ok \in BOOLEAN : BfSnapshot(ok)
    \/ \E c \in {<<"a">>, <<"b">>}, ps \in HistoryReactions, f \in Faults :
          BfMessage(c, ps, f)
    \/ \E e \in BOOLEAN : BfChannelDone(e)
    \/ BfReport
    \/ \E i \in EvMsgIds : on_message(i, <<"a">>, "none")
    \/ \E i \in EvMsgIds : on_reaction_add(i, ListenerReaction, FALSE, "none")

SpecBackfill == InitBackfill /\ [][NextBackfill]_vars

\* the k-th result generate_notes returned
Ret(k) == notesRet[k]

\* C3: two generate_notes calls in a row on one completed session that has a
\* transcription return the same text, the second without an external call
\* and both together with at most one.
C3_NotesIdempotent ==
    \A k \in 1..(Len(notesRet) - 1) :
        (/\ Ret(k).sid = Ret(k + 1).sid
         /\ Ret(k).clean /\ Ret(k + 1).clean
         /\ Ret(k).before # NoRow /\ Ret(k).before.status = "completed"
         /\ Ret(k).ntrans >= 1)
        => (/\ Ret(k).text = Ret(k + 1).text
            /\ Ret(k + 1).called = 0
            /\ Ret(k).called + Ret(k + 1).called <= 1)

\* C4: a generate_notes call that returns the error string of a failed
\* external call or of a missing API key leaves the session's notes and
\* notes_generated flag as they were; no session holds an error string as notes.
C4_ErrorNotCached ==
    /\ \A k \in 1..Len(notesRet) :
          Ret(k).text \in ErrorTexts => Ret(k).after = Ret(k).before
    /\ \A s \in SessionIds :
          sessions[s] # NoRow => sessions[s].notes \notin ErrorTexts

\* the session of a call was missing, not completed, or without transcriptions
Refused(r) == r.before = NoRow \/ r.before.status # "completed" \/ r.ntrans = 0

\* C5: generate_notes on a session that does not exist, is not completed or
\* has no transcription rows returns failure, makes no external call and
\* leaves the session row unchanged.
C5_NotesRefuses ==
    \A k \in 1..Len(notesRet) :
        Refused(Ret(k)) => (~Ret(k).ok /\ Ret(k).called = 0 /\ Ret(k).after = Ret(k).before)

\* an active session with transcriptions and a completed session without
\* any have both been refused
C5_Witness ==
    /\ \E k \in 1..Len(notesRet) :
          Ret(k).clean /\ Ret(k).before # NoRow /\ Ret(k).before.status = "active"
          /\ Ret(k).ntrans >= 1 /\ ~Ret(k).ok
    /\ \E k \in 1..Len(notesRet) :
          Ret(k).clean /\ Ret(k).before # NoRow /\ Ret(k).before.status = "completed"
          /\ Ret(k).ntrans = 0 /\ Ret(k).text = NoTransText

ActiveRows(ch) ==
    {x \in SessionIds : sessions[x] # NoRow /\ sessions[x].status = "active"
                        /\ sessions[x].chan = ch}

\* C6: at no time does a voice channel have more than one Voice Session row
\* with status active, more than one voice connection or more than one
\* transcription task, whatever the interleaving of start requests.
C6_OneRecordingPerChannel ==
    \A ch \in VoiceChans :
        /\ Cardinality(ActiveRows(ch)) <= 1
        /\ Cardinality(connections) <= 1
        /\ Cardinality({t \in SessionIds : Running(t)}) <= 1

AllClear(ch) ==
    /\ active_sessions[ch] = 0 /\ voice_clients[ch] = 0
    /\ sinks[ch] = 0 /\ transcription_tasks[ch] = 0

C8_RowsOnlyWhileActive ==
    [][\A k \in (Len(transcriptions) + 1)..Len(transcriptions') :
          sessions[transcriptions'[k].session].status = "active"]_vars


\* C9: with skip-existing set, no step of the backfill run changes the row of
\* a message id that is already stored (no overwrite; message_id is unique, so
\* no second row), and the run calls store_message for no message of a channel
\* that had a stored message inside the lookback window when the channels
\* were selected.
C9_SkipExistingNeverRestores ==
    [][(bf.skip /\ bf' # bf) =>
          /\ \A i \in MsgIds : messages[i] # NoRow => messages'[i] = messages[i]
          /\ \A call \in bfLog'.calls : MsgChan(call.id) \notin bfLog'.hadRecent]_vars

\* a skip-existing run has reported: channel 1 held message 1 when the
\* channels were selected and was left alone (message 3 is still missing),
\* while the other channel was processed
C9_Witness ==
    /\ bf.skip /\ bfLog.reported
    /\ 1 \in bfLog.hadRecent /\ messages[1] # NoRow /\ messages[3] = NoRow
    /\ \E k \in 1..Len(bfLog.counts) : bfLog.counts[k].chan = 2

\* C10: the count backfill_channel returns for a channel, and the total the
\* run reports, equal the number of Message rows the run added (for that
\* channel, in total).
C10_CountsMatchRowsAdded ==
    /\ \A k \in 1..Len(bfLog.counts) : bfLog.counts[k].count = bfLog.counts[k].added
    /\ bfLog.reported => bf.total_new = bfLog.addedTotal

\* the Reaction rows of a message
ReactionsOf(rs, i) == SelectSeq(rs, LAMBDA r : r.msg = i)

\* C11: no step backfill_channel takes changes the row (content, edit
\* timestamp, flags) or the Reaction rows of a message whose row was present
\* when backfill_channel started.
C11_BackfillLeavesStoredRows ==
    [][(bf' # bf /\ bf.pc \in {"resolve", "snapshot", "history"}) =>
          \A i \in bfLog.atStart :
              /\ messages'[i] = messages[i]
              /\ ReactionsOf(reactions', i) = ReactionsOf(reactions, i)]_vars

\* backfill_channel has returned for channel 1: message 1 was stored with a
\* reaction count of 2 when it started and still is, although the platform
\* handed it over with other values, and message 3 was stored next to it
C11_Witness ==
    /\ \E k \in 1..Len(bfLog.counts) :
          bfLog.counts[k].chan = 1 /\ 1 \in bfLog.counts[k].had /\ bfLog.counts[k].added = 1
    /\ messages[1] # NoRow /\ messages[3] # NoRow
    /\ \E k \in 1..Len(reactions) : reactions[k].msg = 1 /\ reactions[k].count = 2
    /\ \E k \in 1..Len(reactions) : reactions[k].msg = 3 /\ reactions[k].count = 1

\* the summary command and the dashboard over a store of messages written
\* by people, the empty store included
SummaryRows(i) ==
    {NoRow} \cup {[content |-> c, edited |-> FALSE, chan |-> MsgChan(i), author |-> MsgAuthor(i)] :
                     c \in {<<>>, <<" ">>, <<"a">>}}

InitSummary ==
    /\ messages \in {f \in [MsgIds -> UNION {SummaryRows(i) : i \in MsgIds}] :
                        \A i \in MsgIds : /\ f[i] \in SummaryRows(i)
                                          /\ IsBot(MsgAuthor(i)) => f[i] = NoRow}
    /\ reactions = <<>> /\ lastEv = NoEv
    /\ handlers = [h \in Handlers |-> IdleHandler]
    /\ users = {messages[i].author : i \in {j \in MsgIds : messages[j] # NoRow}}
    /\ channels \in {{}, ChanIds}
    /\ users # {} => channels # {}
    /\ display \in [UserIds -> {<<>>, <<"z">>}]
    /\ reply = NoReply
    /\ response = NoResponse
    /\ asked = <<>>
    /\ SessionsEmpty /\ NotesIdle /\ RecorderIdle /\ BackfillOff
    /\ apiKey \in BOOLEAN /\ enabled = FALSE
    /\ servers \in {{}, {ChanGuild(c) : c \in ChanIds}}
    /\ channels # {} => servers # {}

NextSummary ==
    \E ch \in ChanIds, hours \in SummaryArgs, limit \in SummaryArgs, ok \in BOOLEAN,
       api \in ApiOutcomes : summary_command(ch, hours, limit, ok, api) /\ UNCHANGED asked

SpecSummary == InitSummary /\ [][NextSummary]_vars

\* C12: a summary over an empty selection is answered with the "no messages
\* found" reply, one over a selection whose messages all have an empty or
\* whitespace-only text with the "only media" reply, and neither reply
\* involves the summary generator or the API
Blank(c) == \A j \in 1..Len(c) : c[j] = " "

C12_EmptyAndMediaReplies ==
    reply.kind \in {"no_messages", "only_media", "summary"} =>
        /\ reply.ids = <<>> => reply.kind = "no_messages"
        /\ (reply.ids # <<>> /\ \A k \in 1..Len(reply.ids) : Blank(messages[reply.ids[k]].content))
              => reply.kind = "only_media"
        /\ reply.kind # "summary" =>
              ~reply.called /\ reply.guidance = "none" /\ reply.n = 0 /\ reply.k = 0

C12_Witness ==
    /\ reply.kind = "only_media"
    /\ Len(reply.ids) = 2
    /\ \E k \in 1..Len(reply.ids) : messages[reply.ids[k]].content = <<" ">>
    /\ \E k \in 1..Len(reply.ids) : messages[reply.ids[k]].content = <<>>

\* C13: without an API key the template summary of a selection reports the
\* number of selected messages and the number of distinct users who wrote
\* them
C13_TemplateCounts ==
    (reply.kind = "summary" /\ ~reply.key) =>
        /\ reply.guidance = "setup_key"
        /\ reply.n = Len(reply.ids)
        /\ reply.k = Cardinality({messages[reply.ids[j]].author : j \in 1..Len(reply.ids)})

\* C14: the template summary ends with the set-up-your-key text exactly when
\* no key is configured, with the quota text when the call failed for a quota
\* reason, and with the requests-are-failing text when it failed otherwise,
\* a missing client library and a rate limit included
QuotaReason(api) ==
    api.kind = "error" /\ api.msg \in {<<"insufficient_quota">>, <<"Quota", "exceeded">>}

C14_FallbackGuidance ==
    (reply.kind = "summary" /\ reply.api.kind # "ok") =>
        /\ ~reply.key => reply.guidance = "setup_key"
        /\ (reply.key /\ QuotaReason(reply.api)) => reply.guidance = "quota"
        /\ (reply.key /\ ~QuotaReason(reply.api)) => reply.guidance = "failing"

\* C15: no listener handler lets a storage error out: whatever database call
\* fails while an event is handled, the handler returns normally
C15_HandlersSwallowStorageErrors ==
    (lastEv.kind # "none" /\ lastEv.fault # "none") => ~lastEv.raised

\* C16: a message-create event of a person is stored whatever parent rows
\* are missing beforehand: after the handler the Message row exists and its
\* Channel and User rows exist
C16_ParentsCreatedOnDemand ==
    (lastEv.kind = "create" /\ ~lastEv.bot /\ lastEv.fault = "none") =>
        /\ messages[lastEv.id] # NoRow
        /\ messages[lastEv.id].chan \in channels
        /\ messages[lastEv.id].author \in users

\* a backfill of every channel (no skipping, no limit) while the listener
\* handles the events of a bot account and the messages of people
BotMsgIds == {i \in EvMsgIds : MsgAuthor(i) = BotUser}

InitBots ==
    /\ StoreEmpty /\ channels = ChanIds
    /\ SessionsEmpty /\ NotesIdle /\ ViewIdle /\ RecorderIdle
    /\ apiKey = FALSE /\ enabled = FALSE
    /\ servers = {ChanGuild(c) : c \in ChanIds}
    /\ bf = [IdleBackfill EXCEPT !.pc = "start"]
    /\ bfLog = NoBfLog

NextBots ==
    \/ BfConnect(TRUE)
    \/ BfSelect(TRUE)
    \/ BfResolve("ok")
    \/ BfSnapshot(TRUE)
    \/ \E ps \in HistoryReactions : BfMessage(<<"a">>, ps, "none")
    \/ BfChannelDone(FALSE)
    \/ BfReport
    \/ \E i \in EvMsgIds : on_message(i, <<"a">>, "none")
    \/ \E i \in EvMsgIds, byBot \in BOOLEAN :
          on_reaction_add(i, ListenerReaction, byBot, "none")
    \/ \E i \in BotMsgIds : on_message_edit(i, <<"b">>, "none")
    \/ \E i \in BotMsgIds : on_message_delete(i, "none")
    \/ \E i \in EvMsgIds : on_reaction_remove(i, ListenerReaction, TRUE, "none")

SpecBots == InitBots /\ [][NextBots]_vars

\* C17: an event attributed to a bot account (a message event with a bot
\* author, a reaction event with a bot as the reacting user) leaves the
\* message and reaction tables as they were, and no step of the listener or
\* of the backfill leaves a Message row whose author is a bot
C17_BotActivityIgnored ==
    [][/\ \A i \in MsgIds : messages'[i] # NoRow => messages'[i].author # BotUser
       /\ (lastEv' # lastEv /\ (lastEv'.bot \/ (lastEv'.kind \in {"create", "edit", "delete"}
                                                 /\ MsgAuthor(lastEv'.id) = BotUser)))
             => (messages' = messages /\ reactions' = reactions)]_vars

C17_Witness ==
    /\ lastEv.kind = "delete" /\ lastEv.bot
    /\ bfLog.reported
    /\ \E k \in 1..Len(bfLog.counts) : bfLog.counts[k].chan = MsgChan(2)
    /\ messages[1] # NoRow /\ reactions # <<>>
    /\ messages[2] = NoRow

\* the statistics endpoint over the same stores, at any hour of the day
NextDashboard == \E h \in 0..MaxMsg : api_stats(h)

SpecDashboard == InitSummary /\ [][NextDashboard]_vars

\* C18: over a store with no rows at all the dashboard aggregates are zero
\* in every count field and empty in every top-N field, and api_stats
\* answers with them without raising
C18_EmptyStoreStats ==
    (response.status # "none" /\ Stored = {} /\ users = {} /\ channels = {} /\ servers = {}) =>
        /\ \A f \in DOMAIN response.stats : response.stats[f] = 0
        /\ response.channel_stats.top_channels.rows = <<>>
        /\ response.user_stats.top_users.rows = <<>>
        /\ \A d \in 0..6 : /\ response.channel_stats.channel_activity[d].rows = <<>>
                           /\ response.user_stats.user_activity[d].rows = <<>>
        /\ response.status = "ok"

\* people's messages being created and deleted while reactions to them are
\* added and removed
NextReactions ==
    \/ \E i \in EvMsgIds : on_message(i, <<"a">>, "none")
    \/ \E i \in EvMsgIds, f \in {"none", "message"} : on_message_delete(i, f)
    \/ \E i \in EvMsgIds, p \in Payloads, f \in {"none", "message"} :
          on_reaction_add(i, p, FALSE, f)
    \/ \E i \in EvMsgIds, p \in Payloads : on_reaction_remove(i, p, FALSE, "none")

SpecReactions == InitListener /\ [][NextReactions]_vars

\* C19: every Reaction row belongs to a Message row that exists: a reaction
\* event for a message without a row adds no Reaction row, and a delete
\* event takes the message's Reaction rows with it
C19_ReactionsHaveMessages ==
    \A k \in 1..Len(reactions) : messages[reactions[k].msg] # NoRow

C19_Witness ==
    /\ lastEv.kind = "react_add" /\ ~lastEv.bot /\ lastEv.fault = "none"
    /\ lastEv.payload.emoji.kind = "custom"
    /\ messages[lastEv.id] = NoRow /\ MsgAuthor(lastEv.id) # BotUser
    /\ reactions = <<>>

\* two generate_notes calls in flight at once (the automatic call of the
\* leave command and a notes command), every database call succeeding
NextNotesConcurrent ==
    \/ \E p \in NotesCallers, sid \in SessionIds : NotesGet(p, sid, TRUE)
    \/ \E p \in NotesCallers : NotesTrans(p, TRUE)
    \/ \E p \in NotesCallers, raised \in BOOLEAN, out \in LlmOutputs : NotesApi(p, raised, out)
    \/ \E p \in NotesCallers : NotesSave(p, TRUE)

SpecNotesConcurrent == InitNotes /\ [][NextNotesConcurrent]_vars

\* C20: however two generate_notes calls on one completed session interleave,
\* the language model is called at most once for the session, and once
\* notes_generated is set the session's notes text stays as it is
ApiCalls(sid) ==
    Cardinality({k \in 1..Len(notesRet) : notesRet[k].sid = sid /\ notesRet[k].called = 1})
    + Cardinality({p \in NotesCallers : /\ notesProc[p].pc # "idle"
                                        /\ notesProc[p].sid = sid
                                        /\ notesProc[p].called = 1})

C20_NotesGeneratedOnce ==
    [][\A sid \in SessionIds :
          /\ ApiCalls(sid)' <= 1
          /\ (sessions[sid] # NoRow /\ sessions[sid].notes_generated)
                => sessions'[sid].notes = sessions[sid].notes]_vars

\* C21: a cycle sends only audio buffered since the previous cycle: within
\* one recording no speaker's file comes back with text once the session
\* already has a row transcribed from that speaker's file
C21_AudioSentOnce ==
    [][\A t \in SessionIds :
          (tasks[t].pc = "stt" /\ tasks'[t].pc = "store") =>
              ~\E k \in 1..Len(transcriptions) :
                  /\ transcriptions[k].session = tasks[t].session
                  /\ transcriptions[k].user = tasks[t].left]_vars

\* C22: start_recording is rejected with a failure result when transcription
\* is disabled or the channel already has an active session: such a request
\* never reaches connect(), and the step that rejects it leaves the four
\* recorder mappings and the store unchanged.
C22_StartRejected ==
    [][\A r \in StartReqs :
        /\ (startProc[r].pc = "idle" /\ startProc'[r].pc = "connect")
           => (enabled /\ \A ch \in VoiceChans : active_sessions[ch] = 0)
        /\ (/\ startProc[r].pc = "idle" /\ startProc'[r].pc = "idle"
            /\ returned' # returned
            /\ returned' \in {[op |-> "start", result |-> "already"],
                              [op |-> "start", result |-> "disabled"]})
           => (/\ ~enabled \/ \E ch \in VoiceChans : active_sessions[ch] # 0
               /\ returned'.result = (IF enabled THEN "already" ELSE "disabled")
               /\ UNCHANGED <<active_sessions, voice_clients, sinks,
                              transcription_tasks>>
               /\ UNCHANGED <<messages, reactions, users, channels, sessions,
                              transcriptions>>)]_vars

\* a start request on a channel that is being recorded has been rejected
C22_Witness ==
    /\ returned = [op |-> "start", result |-> "already"]
    /\ \E ch \in VoiceChans :
          /\ active_sessions[ch] # 0 /\ voice_clients[ch] # 0 /\ sinks[ch] # 0
          /\ sessions[active_sessions[ch]].status = "active"

\* C23: within a cycle the speakers are processed one after another, and a
\* failure for one speaker (no text from the speech-to-text call, or the row
\* not stored) neither skips the remaining speakers nor ends the loop: the
\* task goes on to the next speaker of the cycle, and after the last one
\* back to sleep while the channel is still active.
C23_SpeakerFailureIsolated ==
    [][\A t \in SessionIds :
        (/\ tasks[t].pc \in {"stt", "store"} /\ ~tasks[t].cancel
         /\ tasks'[t] # tasks[t] /\ ~tasks'[t].cancel
         /\ \/ tasks[t].pc = "stt" /\ tasks'[t].pc # "store"
            \/ tasks[t].pc = "store" /\ transcriptions' = transcriptions)
        => IF tasks[t].left > 1
           THEN tasks'[t].pc = "stt" /\ tasks'[t].left = tasks[t].left - 1
           ELSE \A ch \in VoiceChans :
                   active_sessions[ch] = tasks[t].session => tasks'[t].pc = "sleep"]_vars

\* the first speaker of a cycle has failed (the recording has no row) and
\* the last speaker's text is being stored
C23_Witness ==
    \E t \in SessionIds :
        /\ tasks[t].pc = "store" /\ tasks[t].left = 1 /\ ~tasks[t].cancel
        /\ transcriptions = <<>>
        /\ MaxTalkers > 1

(***************************************************************************)
(* Two reaction handlers side by side on stored and unstored messages.     *)
(***************************************************************************)
InitReactionRace ==
    /\ messages = [i \in MsgIds |->
                      IF i = 1 THEN [content |-> <<"a">>, edited |-> FALSE,
                                     chan |-> MsgChan(1), author |-> MsgAuthor(1)]
                      ELSE NoRow]
    /\ reactions \in {<<>>, <<[msg |-> 1, name |-> "blob", eid |-> 7, count |-> 0]>>}
    /\ users = {MsgAuthor(1)} /\ channels = ChanIds
    /\ lastEv = NoEv
    /\ handlers = [h \in Handlers |-> IdleHandler]
    /\ SessionsEmpty /\ NotesIdle /\ ViewIdle /\ RecorderIdle /\ BackfillOff
    /\ apiKey = FALSE /\ enabled = FALSE
    /\ servers = {ChanGuild(c) : c \in ChanIds}

NextReactionRace ==
    \/ \E h \in Handlers, kind \in {"react_add", "react_remove"}, i \in EvMsgIds,
          p \in Payloads : Dispatch(h, kind, i, p)
    \/ \E h \in Handlers : StoreReactionAwait(h)
    \/ \E h \in Handlers : UpdateReactionCountAwait(h)

SpecReactionRace == InitReactionRace /\ [][NextReactionRace]_vars

\* the handlers that wrote row k: same message and emoji, row created or saved
Writers(k) ==
    {h \in Handlers :
        /\ handlers[h].result \in {"created", "saved"}
        /\ handlers[h].id = reactions[k].msg
        /\ handlers[h].payload.emoji.name = reactions[k].name
        /\ handlers[h].payload.emoji.id = reactions[k].eid}

\* C24: however reaction add and reaction remove handlers on one message and
\* emoji interleave, at most one Reaction row exists for a key (message,
\* emoji_name, emoji_id) in every state, and once all handlers have finished
\* the count of a row they wrote is the count carried by one of their events.
C24_ReactionKeyUniqueUnderRace ==
    /\ \A i \in MsgIds, e \in Emojis :
          Cardinality({k \in 1..Len(reactions) :
                          /\ reactions[k].msg = i /\ reactions[k].name = e.name
                          /\ reactions[k].eid = e.id}) <= 1
    /\ (\A h \in Handlers : handlers[h].pc = "done")
       => \A k \in 1..Len(reactions) :
             Writers(k) # {} =>
                \E h \in Writers(k) : reactions[k].count = handlers[h].payload.count

\* both handlers found no row for the key, one created it and the other,
\* rejected by the constraint, overwrote the count: one row, the loser's count
C24_Witness ==
    /\ Len(reactions) = 1
    /\ \E h, g \in Handlers :
          /\ handlers[h].result = "created" /\ handlers[g].result = "saved"
          /\ handlers[g].kind = "react_add" /\ handlers[g].lost
          /\ handlers[h].id = handlers[g].id
          /\ handlers[h].payload.emoji = handlers[g].payload.emoji
          /\ handlers[h].payload.count # handlers[g].payload.count
          /\ reactions[1].count = handlers[g].payload.count

(***************************************************************************)
(* Two on_message handlers side by side on a store that may be empty.      *)
(***************************************************************************)
NextFirstObservation ==
    \/ \E h \in Handlers, i \in MsgIds : Dispatch(h, "create", i, NoEv.payload)
    \/ \E h \in Handlers : GetOrCreateChannelAwait(h)
    \/ \E h \in Handlers : GetOrCreateUserAwait(h)
    \/ \E h \in Handlers : StoreMessageAwait(h)

SpecFirstObservation == InitListener /\ [][NextFirstObservation]_vars

\* C25: when two handlers make the first observation of the same channel,
\* user or message at once, the one whose insert is rejected goes on with
\* the row that is there, and both complete: once both have finished, each
\* handler's message is stored with its channel and author rows (one row per
\* id: the tables are keyed by the unique id columns).  The race is between
\* creators: without the guild's server row store_channel attempts no insert.
C25_FirstObservationRace ==
    (\A h \in Handlers : handlers[h].pc \in {"idle", "done"})
    => \A h \in Handlers :
          (/\ handlers[h].kind = "create" /\ MsgAuthor(handlers[h].id) # BotUser
           /\ ChanGuild(MsgChan(handlers[h].id)) \in servers)
          => /\ handlers[h].result \in {"created", "exists"}
             /\ messages[handlers[h].id] # NoRow
             /\ messages[handlers[h].id].chan \in channels
             /\ messages[handlers[h].id].author \in users

\* two messages of one new channel arrived together: the handler whose
\* channel insert was rejected has stored its own message all the same
C25_Witness ==
    \E h, g \in Handlers :
        /\ handlers[h].pc = "done" /\ handlers[g].pc = "done"
        /\ handlers[h].id # handlers[g].id
        /\ MsgChan(handlers[h].id) = MsgChan(handlers[g].id)
        /\ handlers[g].lost /\ handlers[g].result = "created"
        /\ handlers[h].result = "created"

(***************************************************************************)
(* Summary commands whose arguments pass validation, the database and the  *)
(* API answering.                                                          *)
(***************************************************************************)
NextSelection ==
    \E ch \in ChanIds, hours \in SummaryArgs, limit \in SummaryArgs :
        /\ hours.kind # "bad" /\ limit.kind # "bad"
        /\ summary_command(ch, hours, limit, TRUE, [kind |-> "ok", msg |-> <<>>])
        /\ asked' = <<ch, hours, limit>>

SpecSelection == InitSummary /\ [][NextSelection]_vars

\* C26: for a channel with a row and every hours and limit that pass
\* validation, 0 included, the command selects, among the stored non-bot
\* messages of the channel at or after the cutoff (all without an hours
\* argument), the most recent ones up to the limit (50 without a limit
\* argument), and presents them oldest first.
C26_SummarySelection ==
    (asked # <<>> /\ asked[1] \in channels) =>
        LET hours == asked[2]
            limit == asked[3]
            pool == {i \in MsgIds : /\ messages[i] # NoRow
                                    /\ messages[i].chan = asked[1]
                                    /\ messages[i].author # BotUser
                                    /\ hours.kind = "int" => MaxMsg - i <= hours.val}
            n == IF limit.kind = "int" THEN limit.val ELSE DefaultLimit
            want == {i \in pool : Cardinality({j \in pool : j > i}) < n}
            shown == Reverse(reply.ids)
        IN  /\ reply.kind \in {"no_messages", "only_media", "summary"}
            /\ {reply.ids[k] : k \in 1..Len(reply.ids)} = want
            /\ Len(reply.ids) = Cardinality(want)
            /\ \A j, k \in 1..Len(shown) : j < k => shown[j] < shown[k]

\* C27: a channel the platform no longer knows, or one the bot may not read,
\* is skipped with a count of 0 and the run goes on: the step that fails to
\* resolve a channel writes nothing to the store, leaves the total as it
\* was, reports 0 for the channel when it reports a count, and moves to the
\* next selected channel (to the final report after the last one); so does
\* a history that is refused before its first message.
C27_ChannelFailureSkipped ==
    [][(/\ bf' # bf
        /\ \/ bf.pc = "resolve" /\ bf'.pc # "snapshot"
           \/ bf.pc = "history" /\ bf.pos = 1 /\ bf'.pc # "history")
       => /\ UNCHANGED storeVars
          /\ bf'.todo = Tail(bf.todo)
          /\ bf'.total_new = bf.total_new
          /\ bf'.pc = (IF Len(bf.todo) > 1 THEN "resolve" ELSE "report")
          /\ Len(bfLog'.counts) > Len(bfLog.counts)
                => /\ bfLog'.counts[Len(bfLog'.counts)].chan = Head(bf.todo)
                   /\ bfLog'.counts[Len(bfLog'.counts)].count = 0]_vars

\* the first channel failed (count 0, no message of it stored or handed to
\* store_message) and the run is reading the history of the second
C27_Witness ==
    /\ bf.pc = "history" /\ Head(bf.todo) = 2
    /\ Len(bfLog.counts) = 1
    /\ bfLog.counts[1].chan = 1 /\ bfLog.counts[1].count = 0
    /\ \A i \in MsgIds : MsgChan(i) = 1 => messages[i] = NoRow
    /\ \A x \in bfLog.calls : MsgChan(x.id) # 1

(***************************************************************************)
(* The connect stage of a backfill run, step by step.  The run's bot is a  *)
(* DiscordIntelligenceBot: while bot.connect runs it handles the events of *)
(* the platform.  The run's own steps are taken when they can be; when the *)
(* platform ends the connection is up to the platform.                     *)
(***************************************************************************)
NextBackfillRun ==
    \/ \E ok \in BOOLEAN : BfLogin(ok)
    \/ \E clean \in BOOLEAN : BfConnectReturns(clean)
    \/ \E i \in EvMsgIds, c \in Contents, f \in Faults :
          bf.pc = "connecting" /\ on_message(i, c, f)

SpecBackfillRun ==
    InitBackfill /\ [][NextBackfillRun]_vars /\ WF_vars(\E ok \in BOOLEAN : BfLogin(ok))

\* C28: a backfill run whose login succeeded and whose connection stays up
\* gets past connect and wait_until_ready, processes its channels, reports
\* the total and closes: once inside connect, the run eventually reports,
\* unless the connection ends.
C28_BackfillRunCompletes ==
    (bf.pc = "connecting") ~> (bfLog.reported \/ bf.pc \in {"wait_ready", "closed"})

\* C29: whenever no start and no stop request is in progress, a channel is
\* in all four recorder mappings or in none; in particular a start that
\* failed after connecting has left no voice client and no sink registered.
C29_MappingsAgree ==
    (/\ \A r \in StartReqs : startProc[r].pc = "idle"
     /\ \A q \in StopReqs : stopProc[q].pc = "idle")
    => \A ch \in VoiceChans :
          /\ (voice_clients[ch] # 0) = (active_sessions[ch] # 0)
          /\ (sinks[ch] # 0) = (active_sessions[ch] # 0)
          /\ (transcription_tasks[ch] # 0) = (active_sessions[ch] # 0)

\* C30: once start and stop requests have returned, every channel still in
\* active_sessions has its periodic task running and a Voice Session row
\* with status active.
C30_ActiveSessionHasTask ==
    (/\ \A r \in StartReqs : startProc[r].pc = "idle"
     /\ \A q \in StopReqs : stopProc[q].pc = "idle")
    => \A ch \in VoiceChans :
          active_sessions[ch] # 0 =>
             /\ tasks[active_sessions[ch]].pc \in {"new", "sleep", "stt", "store"}
             /\ sessions[active_sessions[ch]] # NoRow
             /\ sessions[active_sessions[ch]].status = "active"

=============================================================================
